---- MODULE Spec2Model ----
(***************************************************************************)
(* pi_atom: the process-wide pool of interned strings (src/src/lib.rs).    *)
(*                                                                         *)
(* ATOM_MAP maps a text to the shared Entry (text, hash) that every Atom   *)
(* of that text points to; HASH_MAP maps a hash to a weak reference to an  *)
(* Entry.  An Entry is a Share (an atomically counted shared pointer): its *)
(* strong count is the number of owning pointers to it, the one stored in  *)
(* ATOM_MAP included.  Threads run create / clone / drop /                 *)
(* store_weak_by_hash / get_by_hash / collect; every step below is one     *)
(* atomic access to the shared state (one atomic operation on a count, or  *)
(* one critical section of a map shard).                                   *)
(***************************************************************************)
EXTENDS Integers, Sequences, FiniteSets, TLC

\* ---------------------------------------------------------------- bounds
NumThreads == 2      \* threads using the pool
MaxAlloc == 2        \* Entries allocated over a run
MaxHandles == 3      \* Atoms in existence at one time

\* ------------------------------------------------------ hashing utility
\* Usize, reduced from 2^64 (2^32) to two bits so that hashes collide.
UsizeMod == 4
\* CurHasher's multiplier, reduced with the width.
HashSeed == 3
\* impl Hash for str feeds the bytes and then the byte 0xff.
StrTerminator == 255

RECURSIVE HashBytes(_, _)
HashBytes(h, bytes) ==
    IF bytes = <<>> THEN h
    ELSE HashBytes((h * HashSeed + Head(bytes)) % UsizeMod, Tail(bytes))

\* str_hash(s): a fresh hasher, s.hash(hasher), finish() as Usize.
str_hash(s) == HashBytes(0, s \o <<StrTerminator>>)

\* ------------------------------------------------------------- universe
Threads == 1..NumThreads
EntryIds == 1..MaxAlloc
\* The texts the threads intern: "" (the text of Atom::default() and EMPTY),
\* and <<1>> and <<1, 2>>, which share a hash.
Texts == {<<>>, <<1>>, <<1, 2>>}
Hashes == 0..(UsizeMod - 1)

VARIABLES
    lookup_by_hash, \* the cargo feature: fixed by the build
    entries,        \* the Entries allocated so far: entries[e] = [text, hash]
    strong,         \* strong[e]: the strong count of Entry e (0: freed)
    ATOM_MAP,       \* text -> Entry stored under it (0: no record)
    HASH_MAP,       \* hash -> Entry weakly referenced (0: no record)
    lock,           \* lock[s]: the thread holding ATOM_MAP's shard of key s (0: free)
    held,           \* held[e]: Atoms of Entry e the application holds at rest
    kept,           \* an Entry one of whose Atoms the application never drops (0: none)
    pc,             \* pc[t]: where thread t is in its operation
    key,            \* key[t]: the text thread t is creating
    self,           \* self[t]: the Entry of the Atom thread t owns in its operation
    removed,        \* removed[t]: the Entry whose map pointer remove_if handed to t
    cursor          \* cursor[t]: the HASH_MAP shard collect() visits next

vars == <<lookup_by_hash, entries, strong, ATOM_MAP, HASH_MAP, lock, held, kept,
          pc, key, self, removed, cursor>>

\* ------------------------------------------------------------- helpers
Allocated == 1..Len(entries)
as_str(e) == entries[e].text
cached_hash(e) == entries[e].hash

RECURSIVE SumHeld(_)
SumHeld(n) == IF n = 0 THEN 0 ELSE held[n] + SumHeld(n - 1)

\* Atoms of Entry e in existence: at rest, or owned by a running operation.
Handles(e) == held[e] + Cardinality({t \in Threads : self[t] = e})
\* Pointers to e that remove_if returned and the caller has not dropped yet.
Temps(e) == Cardinality({t \in Threads : removed[t] = e})
\* Atoms in existence, those a running create is about to return included.
TotalHandles ==
    SumHeld(MaxAlloc) + Cardinality({t \in Threads : self[t] # 0})
        + Cardinality({t \in Threads : pc[t] = "create_entry"})
AllIdle == \A t \in Threads : pc[t] = "idle"
OthersIdle(t) == \A u \in Threads \ {t} : pc[u] = "idle"

\* --------------------------------------------------------------- Init
Init ==
    /\ lookup_by_hash \in BOOLEAN
    /\ entries = <<>>
    /\ strong = [e \in EntryIds |-> 0]
    /\ ATOM_MAP = [s \in Texts |-> 0]
    /\ HASH_MAP = [h \in Hashes |-> 0]
    /\ lock = [s \in Texts |-> 0]
    /\ held = [e \in EntryIds |-> 0]
    /\ kept = 0
    /\ pc = [t \in Threads |-> "idle"]
    /\ key = [t \in Threads |-> <<>>]
    /\ self = [t \in Threads |-> 0]
    /\ removed = [t \in Threads |-> 0]
    /\ cursor = [t \in Threads |-> 0]


\* ------------------------------------------------ Share / ShareWeak
\* A clone that loses its increment.
StrongIncLost(e) == strong
\* Share::clone: one atomic increment of the strong count.
StrongInc(e) == [strong EXCEPT ![e] = @ + 1]
\* Dropping a Share: one atomic decrement; at 0 the Entry is freed.
StrongDec(e) == [strong EXCEPT ![e] = @ - 1]
\* ShareWeak::upgrade: succeeds while the strong count is not 0.
Upgrade(e) == IF e # 0 /\ strong[e] > 0 THEN e ELSE 0

\* -------------------------------------------------------- Atom::create
\* The Entry a vacant slot is filled with: (s, str_hash(&s)), lines 79-81.
NewEntry(s) == [text |-> s, hash |-> str_hash(s)]
\* A lookup that never finds the record: every create inserts.
CreateLookupVacant(s) == 0
\* A lookup by the text's hash instead of the text.
CreateLookupByHash(s) ==
    LET same == {x \in Texts : ATOM_MAP[x] # 0 /\ str_hash(x) = str_hash(s)}
    IN  IF same = {} THEN 0 ELSE ATOM_MAP[CHOOSE x \in same : TRUE]
\* What ATOM_MAP.entry(s) finds under the shard lock: Occupied(e) or Vacant (0).
CreateLookup(s) == ATOM_MAP[s]

\* Allocations made, those a running create will make included.
TotalAlloc ==
    Len(entries)
        + Cardinality({t \in Threads :
                          pc[t] = "create_entry" /\ CreateLookup(key[t]) = 0})

\* ATOM_MAP.entry(s), line 76: takes the write lock of the shard of s.
CreateLock(t, s) ==
    /\ pc[t] = "idle"
    /\ lock[s] = 0
    /\ TotalHandles < MaxHandles
    /\ CreateLookup(s) # 0 \/ TotalAlloc < MaxAlloc
    /\ lock' = [lock EXCEPT ![s] = t]
    /\ key' = [key EXCEPT ![t] = s]
    /\ pc' = [pc EXCEPT ![t] = "create_entry"]
    /\ UNCHANGED <<lookup_by_hash, entries, strong, ATOM_MAP, HASH_MAP, held, kept,
                   self, removed, cursor>>

\* The match of lines 76-89, under the shard lock, which the end of the arm
\* (Occupied) or of the insert statement (Vacant) releases.
CreateEntry(t) ==
    /\ pc[t] = "create_entry"
    /\ LET s == key[t]
           e == CreateLookup(s)
           new == Len(entries) + 1
       IN  IF e # 0
           THEN \* Occupied: Atom(entry.get().clone())
                /\ strong' = StrongInc(e)
                /\ held' = [held EXCEPT ![e] = @ + 1]
                /\ pc' = [pc EXCEPT ![t] = "idle"]
                /\ UNCHANGED <<entries, ATOM_MAP, self>>
           ELSE \* Vacant: r = Share::new((s, str_hash)); entry.insert(r.clone())
                /\ entries' = Append(entries, NewEntry(s))
                /\ strong' = [strong EXCEPT ![new] = 2]
                /\ ATOM_MAP' = [ATOM_MAP EXCEPT ![s] = new]
                /\ IF lookup_by_hash
                   THEN /\ self' = [self EXCEPT ![t] = new]
                        /\ pc' = [pc EXCEPT ![t] = "create_hash"]
                        /\ held' = held
                   ELSE /\ held' = [held EXCEPT ![new] = @ + 1]
                        /\ pc' = [pc EXCEPT ![t] = "idle"]
                        /\ self' = self
    /\ lock' = [lock EXCEPT ![key[t]] = 0]
    /\ key' = [key EXCEPT ![t] = <<>>]
    /\ UNCHANGED <<lookup_by_hash, HASH_MAP, kept, removed, cursor>>

\* Lines 83-87, feature lookup_by_hash: HASH_MAP.insert(str_hash, downgrade(&r)),
\* after the ATOM_MAP shard lock is released; then Atom(r) is returned.
CreateHash(t) ==
    /\ pc[t] = "create_hash"
    /\ HASH_MAP' = [HASH_MAP EXCEPT ![cached_hash(self[t])] = self[t]]
    /\ held' = [held EXCEPT ![self[t]] = @ + 1]
    /\ self' = [self EXCEPT ![t] = 0]
    /\ pc' = [pc EXCEPT ![t] = "idle"]
    /\ UNCHANGED <<lookup_by_hash, entries, strong, ATOM_MAP, lock, kept, key,
                   removed, cursor>>

\* --------------------------------------------------------- Atom::clone
\* #[derive(Clone)], line 51: clones the Share.
Clone(t, e) ==
    /\ pc[t] = "idle"
    /\ held[e] > 0
    /\ TotalHandles < MaxHandles
    /\ strong' = StrongInc(e)
    /\ held' = [held EXCEPT ![e] = @ + 1]
    /\ UNCHANGED <<lookup_by_hash, entries, ATOM_MAP, HASH_MAP, lock, kept, pc, key,
                   self, removed, cursor>>

\* ---------------------------------------------------- impl Drop for Atom
\* The test with its threshold off by one.
StillSharedOffByOne(e) == strong[e] > 3
\* The test of lines 113 and 118: strong_count(&self.0) > 2, some pointer
\* besides this Atom's and the map's exists.
StillShared(e) == strong[e] > 2

\* The application may drop any Atom it holds but the kept one.
MayDrop(e) == held[e] > (IF kept = e THEN 1 ELSE 0)

\* Where drop() goes after the unlocked test of line 113.
AfterCheck(e) == IF StillShared(e) THEN "drop_dec" ELSE "drop_lock"

\* An Atom goes out of scope: drop() starts with the test of line 113.
Release(t, e) ==
    /\ pc[t] = "idle"
    /\ MayDrop(e)
    /\ held' = [held EXCEPT ![e] = @ - 1]
    /\ self' = [self EXCEPT ![t] = e]
    /\ pc' = [pc EXCEPT ![t] = AfterCheck(e)]
    /\ UNCHANGED <<lookup_by_hash, entries, strong, ATOM_MAP, HASH_MAP, lock, kept,
                   key, removed, cursor>>

\* The test of line 113 for the Atom store_weak_by_hash took by value.
DropCheck(t) ==
    /\ pc[t] = "drop_check"
    /\ pc' = [pc EXCEPT ![t] = AfterCheck(self[t])]
    /\ UNCHANGED <<lookup_by_hash, entries, strong, ATOM_MAP, HASH_MAP, lock, held,
                   kept, key, self, removed, cursor>>

\* remove_if without the closure's test of line 118: removes whatever record
\* the text has.
DropLockNoRecheck(t) ==
    /\ pc[t] = "drop_lock"
    /\ LET s == as_str(self[t])
       IN  /\ lock[s] = 0
           /\ IF ATOM_MAP[s] = 0
              THEN /\ pc' = [pc EXCEPT ![t] = "drop_dec"]
                   /\ lock' = lock
              ELSE /\ pc' = [pc EXCEPT ![t] = "drop_remove"]
                   /\ lock' = [lock EXCEPT ![s] = t]
    /\ UNCHANGED <<lookup_by_hash, entries, strong, ATOM_MAP, HASH_MAP, held, kept,
                   key, self, removed, cursor>>

\* ATOM_MAP.remove_if(&text, ..), line 116: takes the shard lock, finds the
\* record of the Atom's text, and runs the closure's test of line 118.
\* No record, or the test true: nothing is removed and the lock is released.
DropLock(t) ==
    /\ pc[t] = "drop_lock"
    /\ LET s == as_str(self[t])
       IN  /\ lock[s] = 0
           /\ IF ATOM_MAP[s] = 0 \/ StillShared(self[t])
              THEN /\ pc' = [pc EXCEPT ![t] = "drop_dec"]
                   /\ lock' = lock
              ELSE /\ pc' = [pc EXCEPT ![t] = "drop_remove"]
                   /\ lock' = [lock EXCEPT ![s] = t]
    /\ UNCHANGED <<lookup_by_hash, entries, strong, ATOM_MAP, HASH_MAP, held, kept,
                   key, self, removed, cursor>>

\* HASH_MAP after the closure's line 123 (feature lookup_by_hash).
HashAfterDrop(e) ==
    IF lookup_by_hash THEN [HASH_MAP EXCEPT ![cached_hash(e)] = 0] ELSE HASH_MAP

\* A removal that returns with the shard lock still held.
DropRemoveKeepsLock(t) ==
    /\ pc[t] = "drop_remove"
    /\ LET s == as_str(self[t])
       IN  /\ HASH_MAP' = HashAfterDrop(self[t])
           /\ removed' = [removed EXCEPT ![t] = ATOM_MAP[s]]
           /\ ATOM_MAP' = [ATOM_MAP EXCEPT ![s] = 0]
    /\ pc' = [pc EXCEPT ![t] = "drop_tmp"]
    /\ UNCHANGED <<lookup_by_hash, entries, strong, lock, held, kept, key, self,
                   cursor>>

\* The closure returns true (lines 121-125): the record under the Atom's text
\* is removed, the lock released, and the map's pointer handed to the caller.
DropRemove(t) ==
    /\ pc[t] = "drop_remove"
    /\ LET s == as_str(self[t])
       IN  /\ HASH_MAP' = HashAfterDrop(self[t])
           /\ removed' = [removed EXCEPT ![t] = ATOM_MAP[s]]
           /\ ATOM_MAP' = [ATOM_MAP EXCEPT ![s] = 0]
           /\ lock' = [lock EXCEPT ![s] = 0]
    /\ pc' = [pc EXCEPT ![t] = "drop_tmp"]
    /\ UNCHANGED <<lookup_by_hash, entries, strong, held, kept, key, self, cursor>>

\* End of the statement of line 116: the pointer remove_if returned is dropped.
DropTmp(t) ==
    /\ pc[t] = "drop_tmp"
    /\ strong' = StrongDec(removed[t])
    /\ removed' = [removed EXCEPT ![t] = 0]
    /\ pc' = [pc EXCEPT ![t] = "drop_dec"]
    /\ UNCHANGED <<lookup_by_hash, entries, ATOM_MAP, HASH_MAP, lock, held, kept,
                   key, self, cursor>>

\* After drop() returns the Atom's own Share is dropped.
DropDec(t) ==
    /\ pc[t] = "drop_dec"
    /\ strong' = StrongDec(self[t])
    /\ self' = [self EXCEPT ![t] = 0]
    /\ pc' = [pc EXCEPT ![t] = "idle"]
    /\ UNCHANGED <<lookup_by_hash, entries, ATOM_MAP, HASH_MAP, lock, held, kept,
                   key, removed, cursor>>

\* ------------------------------------------------------------ Hash Index
\* A store that keeps the record a hash already has.
StoreWeakIfVacant(t, e) ==
    /\ pc[t] = "idle"
    /\ MayDrop(e)
    /\ held' = [held EXCEPT ![e] = @ - 1]
    /\ self' = [self EXCEPT ![t] = e]
    /\ HASH_MAP' = IF HASH_MAP[cached_hash(e)] = 0
                   THEN [HASH_MAP EXCEPT ![cached_hash(e)] = e]
                   ELSE HASH_MAP
    /\ pc' = [pc EXCEPT ![t] = "drop_check"]
    /\ UNCHANGED <<lookup_by_hash, entries, strong, ATOM_MAP, lock, kept, key,
                   removed, cursor>>

\* store_weak_by_hash(atom), lines 279-281: the insert, then atom is dropped.
StoreWeak(t, e) ==
    /\ pc[t] = "idle"
    /\ MayDrop(e)
    /\ held' = [held EXCEPT ![e] = @ - 1]
    /\ self' = [self EXCEPT ![t] = e]
    /\ HASH_MAP' = [HASH_MAP EXCEPT ![cached_hash(e)] = e]
    /\ pc' = [pc EXCEPT ![t] = "drop_check"]
    /\ UNCHANGED <<lookup_by_hash, entries, strong, ATOM_MAP, lock, kept, key,
                   removed, cursor>>

\* get_by_hash(h), lines 273-277: the Entry of the Atom returned, 0 for None.
GetByHashResult(h) == Upgrade(HASH_MAP[h])

GetByHash(t, h) ==
    /\ pc[t] = "idle"
    /\ LET e == GetByHashResult(h)
       IN  IF e # 0
           THEN /\ TotalHandles < MaxHandles
                /\ strong' = StrongInc(e)
                /\ held' = [held EXCEPT ![e] = @ + 1]
           ELSE UNCHANGED <<strong, held>>
    /\ UNCHANGED <<lookup_by_hash, entries, ATOM_MAP, HASH_MAP, lock, kept, pc, key,
                   self, removed, cursor>>

\* The closure of retain, line 284: v.strong_count() > 0.
Retained(e) == strong[e] > 0

\* collect(), lines 283-285: retain visits HASH_MAP shard by shard, each under
\* its own lock; the shard of hash cursor[t] is visited here.
CollectShard(t) ==
    /\ pc[t] \in {"idle", "collect"}
    /\ LET h == cursor[t]
           e == HASH_MAP[h]
       IN  /\ HASH_MAP' = IF e # 0 /\ ~Retained(e)
                          THEN [HASH_MAP EXCEPT ![h] = 0]
                          ELSE HASH_MAP
           /\ IF h = UsizeMod - 1
              THEN /\ pc' = [pc EXCEPT ![t] = "idle"]
                   /\ cursor' = [cursor EXCEPT ![t] = 0]
              ELSE /\ pc' = [pc EXCEPT ![t] = "collect"]
                   /\ cursor' = [cursor EXCEPT ![t] = h + 1]
    /\ UNCHANGED <<lookup_by_hash, entries, strong, ATOM_MAP, lock, held, kept, key,
                   self, removed>>

\* ------------------------------------------------ the other constructors
\* What Share::default() allocates for #[derive(Default)], line 51:
\* (SmolStr::default(), 0), the empty text with hash 0.
DefaultEntry == [text |-> <<>>, hash |-> 0]

\* Atom::default(): a fresh Entry that is not put in ATOM_MAP.
Default(t) ==
    /\ pc[t] = "idle"
    /\ TotalHandles < MaxHandles
    /\ TotalAlloc < MaxAlloc
    /\ entries' = Append(entries, DefaultEntry)
    /\ strong' = [strong EXCEPT ![Len(entries) + 1] = 1]
    /\ held' = [held EXCEPT ![Len(entries) + 1] = 1]
    /\ UNCHANGED <<lookup_by_hash, ATOM_MAP, HASH_MAP, lock, kept, pc, key, self,
                   removed, cursor>>

\* The byte slices handed to From<&[u8]>: the texts, and one that is not UTF-8.
ByteSlices == Texts \cup {<<255>>, <<1, 255>>}

\* core::str::from_utf8 on these slices: Ok unless a byte is 0x80 or more
\* (no slice here holds a well-formed multi-byte sequence).
from_utf8_ok(b) == \A i \in 1..Len(b) : b[i] < 128

\* From<&[u8]>, lines 216-221: Atom::new(from_utf8(s).unwrap()).  On Err the
\* unwrap panics and the thread unwinds; on Ok the call is create.
FromBytes(t, b) ==
    IF from_utf8_ok(b)
    THEN CreateLock(t, b)
    ELSE /\ pc[t] = "idle"
         /\ pc' = [pc EXCEPT ![t] = "panicked"]
         /\ UNCHANGED <<lookup_by_hash, entries, strong, ATOM_MAP, HASH_MAP, lock,
                        held, kept, key, self, removed, cursor>>

\* ------------------------------------------------------- specifications
Next ==
    \E t \in Threads :
        \/ \E s \in Texts : CreateLock(t, s)
        \/ CreateEntry(t)
        \/ CreateHash(t)
        \/ \E e \in Allocated : Clone(t, e)
        \/ \E e \in Allocated : Release(t, e)
        \/ DropCheck(t)
        \/ DropLock(t)
        \/ DropRemove(t)
        \/ DropTmp(t)
        \/ DropDec(t)
        \/ \E e \in Allocated : StoreWeak(t, e)
        \/ \E h \in Hashes : GetByHash(t, h)
        \/ CollectShard(t)

Spec == Init /\ [][Next]_vars

\* Every public constructor: the operations of Next, Atom::default() and
\* From<&[u8]>.
NextAll ==
    \/ Next
    \/ \E t \in Threads : Default(t)
    \/ \E t \in Threads : \E b \in ByteSlices : FromBytes(t, b)

SpecAll == Init /\ [][NextAll]_vars

\* Threads that only call create, on a pool that starts empty.
NextCreate ==
    \E t \in Threads :
        \/ \E s \in Texts : CreateLock(t, s)
        \/ CreateEntry(t)
        \/ CreateHash(t)

SpecCreate == Init /\ [][NextCreate]_vars

\* Threads that create, clone and drop Atoms (the mix of tests::rng).
NextCCR ==
    \E t \in Threads :
        \/ \E s \in Texts : CreateLock(t, s)
        \/ CreateEntry(t)
        \/ CreateHash(t)
        \/ \E e \in Allocated : Clone(t, e)
        \/ \E e \in Allocated : Release(t, e)
        \/ DropLock(t)
        \/ DropRemove(t)
        \/ DropTmp(t)
        \/ DropDec(t)

SpecCCR == Init /\ [][NextCCR]_vars

\* The pool after one create(s) whose Atom the application keeps for the run.
InitKept ==
    /\ lookup_by_hash \in BOOLEAN
    /\ \E s \in Texts :
        /\ entries = <<NewEntry(s)>>
        /\ ATOM_MAP = [x \in Texts |-> IF x = s THEN 1 ELSE 0]
        /\ HASH_MAP = [h \in Hashes |->
                          IF lookup_by_hash /\ h = str_hash(s) THEN 1 ELSE 0]
    /\ strong = [e \in EntryIds |-> IF e = 1 THEN 2 ELSE 0]
    /\ lock = [s \in Texts |-> 0]
    /\ held = [e \in EntryIds |-> IF e = 1 THEN 1 ELSE 0]
    /\ kept = 1
    /\ pc = [t \in Threads |-> "idle"]
    /\ key = [t \in Threads |-> <<>>]
    /\ self = [t \in Threads |-> 0]
    /\ removed = [t \in Threads |-> 0]
    /\ cursor = [t \in Threads |-> 0]

SpecKept == InitKept /\ [][NextCCR]_vars

TypeOK ==
    /\ strong \in [EntryIds -> 0..(MaxHandles + 2)]
    /\ held \in [EntryIds -> 0..MaxHandles]
    /\ Len(entries) <= MaxAlloc
    /\ TotalHandles <= MaxHandles


\* ------------------------------------------------------------ properties
\* 1 while ATOM_MAP stores Entry e under its text, else 0.
InMap(e) == IF e \in Allocated /\ ATOM_MAP[as_str(e)] = e THEN 1 ELSE 0

\* C1: whenever no operation is in progress, every Entry that an outstanding
\* Atom references is the Entry ATOM_MAP stores under its text: no Entry is
\* both removed from the map and still referenced.
C1_ReferencedIsInMap ==
    AllIdle => \A e \in Allocated : held[e] > 0 => ATOM_MAP[as_str(e)] = e

\* C2: whenever no operation is in progress, two outstanding Atoms of equal
\* text reference the same Entry.
C2_EqualTextSameEntry ==
    AllIdle =>
        \A e1, e2 \in Allocated :
            (held[e1] > 0 /\ held[e2] > 0 /\ as_str(e1) = as_str(e2)) => e1 = e2

\* C3: once every Atom of text s has been released and every drop has
\* returned, ATOM_MAP holds no record for s.
C3_LastReleaseRemoves ==
    AllIdle =>
        \A s \in Texts :
            (\A e \in Allocated : as_str(e) = s => held[e] = 0) => ATOM_MAP[s] = 0

\* C7: get_by_hash(h) returns an Atom exactly when HASH_MAP holds a record for
\* h whose Entry some outstanding Atom still references (an Atom whose drop
\* has not finished counts as outstanding), and the Entry of the Atom it
\* returns has not been removed from the pool.
C7_GetByHashIffReferenced ==
    \A h \in Hashes :
        /\ GetByHashResult(h) # 0 <=> (HASH_MAP[h] # 0 /\ Handles(HASH_MAP[h]) >= 1)
        /\ GetByHashResult(h) # 0 => InMap(GetByHashResult(h)) = 1

\* C8: in a build without lookup_by_hash (every record comes from
\* store_weak_by_hash), when collect() visits the shard of hash h while no
\* other operation runs and no Atom of an Entry with hash h is outstanding,
\* get_by_hash(h) returns nothing afterwards.
C8_CollectReclaims ==
    [][\A t \in Threads : \A h \in Hashes :
          ( /\ CollectShard(t)
            /\ cursor[t] = h
            /\ OthersIdle(t)
            /\ ~lookup_by_hash
            /\ \A e \in Allocated : cached_hash(e) = h => Handles(e) = 0 )
          => GetByHashResult(h)' = 0]_vars

\* C9: an Entry that has been unlinked from ATOM_MAP is never put back and
\* its count is never incremented again.
C9_RemovedIsTerminal ==
    [][\A e \in Allocated :
          ATOM_MAP[as_str(e)] # e
              => (ATOM_MAP'[as_str(e)] # e /\ strong'[e] <= strong[e])]_vars


\* C4 (SpecCreate: threads that only create, on a pool that starts empty):
\* once every create has returned, each text has at most one Entry, that Entry
\* is the one in ATOM_MAP, every Atom returned for the text references it, and
\* its strong count is the number of those Atoms plus the map's pointer.
C4_CreateConverges ==
    AllIdle =>
        \A s \in Texts :
            LET es == {e \in Allocated : as_str(e) = s}
            IN  /\ Cardinality(es) <= 1
                /\ ATOM_MAP[s] = 0 <=> es = {}
                /\ \A e \in es :
                      /\ ATOM_MAP[s] = e
                      /\ held[e] >= 1
                      /\ strong[e] = held[e] + 1

\* C4's case: every thread has created the same text and all calls have returned.
C4_Witness ==
    /\ AllIdle
    /\ \E e \in Allocated : held[e] = NumThreads /\ strong[e] = NumThreads + 1

\* C5 (SpecCCR: threads that create, clone and drop): in every state the strong
\* count of every Entry is the number of Atoms referencing it, plus one while
\* ATOM_MAP stores it, plus the map pointers a remove_if has handed out; it is
\* never negative.
C5_CountMatchesHandles ==
    \A e \in EntryIds :
        /\ strong[e] >= 0
        /\ strong[e] = Handles(e) + InMap(e) + Temps(e)
        /\ InMap(e) = 1 => strong[e] = Handles(e) + 1

\* C5's case: two threads are dropping Atoms of the same Entry at once.
C5_Witness ==
    \E e \in Allocated :
        /\ InMap(e) = 1
        /\ \A t \in Threads : self[t] = e /\ pc[t] = "drop_dec"

\* C6 (SpecKept: one Atom of the Entry is kept for the whole run): the Entry
\* stays the record of its text, so create finds it, at every point; and its
\* strong count is back at its value before the clones (2) whenever the kept
\* Atom is the only one again.
C6_KeptEntryStays ==
    /\ kept \in Allocated
    /\ CreateLookup(as_str(kept)) = kept
    /\ strong[kept] = Handles(kept) + 1
    /\ Handles(kept) = 1 => strong[kept] = 2

\* C6's case: the clones of the kept Atom are being dropped by all threads at once.
C6_Witness ==
    /\ kept # 0
    /\ held[kept] = 1
    /\ \A t \in Threads : self[t] = kept /\ pc[t] = "drop_dec"

\* C10: create(s) returns an Atom whose text is s, whether it found a record
\* or inserted one (in the feature build the Atom is returned after the
\* HASH_MAP insert).
C10_CreateReturnsText ==
    [][\A t \in Threads :
          /\ CreateEntry(t) =>
                \E e \in 1..Len(entries') :
                    /\ entries'[e].text = key[t]
                    /\ \/ held'[e] = held[e] + 1
                       \/ self'[t] = e /\ pc'[t] = "create_hash"
          /\ CreateHash(t) =>
                /\ held'[self[t]] = held[self[t]] + 1
                /\ entries' = entries]_vars

\* C10's case: Atoms of two different texts with the same hash have been returned.
C10_Witness ==
    \E e1, e2 \in Allocated :
        /\ held[e1] > 0 /\ held[e2] > 0
        /\ as_str(e1) # as_str(e2)
        /\ cached_hash(e1) = cached_hash(e2)

\* C11: a create(s) that holds the shard lock of s while ATOM_MAP has a record
\* for s keeps that record until its match runs, whatever the other threads
\* do; the match returns an Atom of the recorded Entry, adds exactly one to
\* that Entry's strong count, and changes neither the records of ATOM_MAP and
\* HASH_MAP, nor the set of Entries, nor any other count.
C11_CreateExistingFrame ==
    [][\A t \in Threads :
          (pc[t] = "create_entry" /\ ATOM_MAP[key[t]] # 0) =>
              LET e == ATOM_MAP[key[t]]
              IN  IF CreateEntry(t)
                  THEN /\ strong' = [strong EXCEPT ![e] = @ + 1]
                       /\ held' = [held EXCEPT ![e] = @ + 1]
                       /\ ATOM_MAP' = ATOM_MAP
                       /\ HASH_MAP' = HASH_MAP
                       /\ entries' = entries
                       /\ pc'[t] = "idle"
                  ELSE /\ ATOM_MAP'[key[t]] = e
                       /\ pc'[t] = "create_entry"]_vars

\* C11's case: a create is about to run its match on a text whose Entry is
\* in ATOM_MAP with an Atom still held, while another Entry is live too.
C11_Witness ==
    \E t \in Threads :
        /\ pc[t] = "create_entry"
        /\ ATOM_MAP[key[t]] # 0
        /\ held[ATOM_MAP[key[t]]] >= 1
        /\ \E e \in Allocated : e # ATOM_MAP[key[t]] /\ held[e] >= 1

\* ------------------------------------------- equality and hashing of Atoms
\* #[derive(PartialEq, Eq)], line 51: two Atoms are equal when the tuples
\* (text, hash) their Shares point to are equal.
AtomEq(e1, e2) == entries[e1] = entries[e2]
\* impl Hash for Atom, lines 103-110: the value written to the Hasher.
HashFeed(e) == cached_hash(e)

\* C12: for any two Atoms, from whichever constructor, a == b exactly when
\* their texts are equal, and equal Atoms feed the same value to a Hasher.
C12_EqIffSameText ==
    \A e1, e2 \in Allocated :
        (held[e1] > 0 /\ held[e2] > 0) =>
            /\ AtomEq(e1, e2) <=> as_str(e1) = as_str(e2)
            /\ AtomEq(e1, e2) => HashFeed(e1) = HashFeed(e2)

\* ------------------------------------------------------------- scheduling
\* The steps of a running call that wait for nothing.
Continue(t) ==
    \/ CreateEntry(t)
    \/ CreateHash(t)
    \/ DropCheck(t)
    \/ DropRemove(t)
    \/ DropTmp(t)
    \/ DropDec(t)
    \/ (pc[t] = "collect" /\ CollectShard(t))

\* A fair scheduler and fair shard locks: a running thread keeps running, and
\* a drop that waits for a shard lock which is free again and again gets it.
Fairness ==
    \A t \in Threads : WF_vars(Continue(t)) /\ SF_vars(DropLock(t))

SpecFair == Init /\ [][Next]_vars /\ Fairness

C14_CollectPostcondition ==
    [][\A t \in Threads :
          (CollectShard(t) /\ OthersIdle(t)) =>
              LET h == cursor[t]
                  e == HASH_MAP[h]
              IN  /\ (e # 0 /\ Handles(e) = 0) => HASH_MAP'[h] = 0
                  /\ (e # 0 /\ Handles(e) >= 1) => HASH_MAP'[h] = e
                  /\ \A g \in Hashes \ {h} : HASH_MAP'[g] = HASH_MAP[g]
                  /\ ATOM_MAP' = ATOM_MAP
                  /\ strong' = strong
                  /\ entries' = entries]_vars

\* Threads that create and clone Atoms, store them with store_weak_by_hash
\* and look hashes up with get_by_hash.
NextStore ==
    \E t \in Threads :
        \/ \E s \in Texts : CreateLock(t, s)
        \/ CreateEntry(t)
        \/ CreateHash(t)
        \/ \E e \in Allocated : Clone(t, e)
        \/ \E e \in Allocated : StoreWeak(t, e)
        \/ \E h \in Hashes : GetByHash(t, h)
        \/ DropCheck(t)
        \/ DropLock(t)
        \/ DropRemove(t)
        \/ DropTmp(t)
        \/ DropDec(t)

SpecStore == Init /\ [][NextStore]_vars

\* C15: store_weak_by_hash(atom) puts a reference to the Atom's Entry under
\* the Atom's cached hash, whatever record was there, and leaves the records
\* of the other hashes alone; right after it get_by_hash of that hash returns
\* an Atom of that Entry.
C15_StoreOverwrites ==
    [][\A t \in Threads : \A e \in Allocated :
          StoreWeak(t, e) =>
              /\ HASH_MAP' = [HASH_MAP EXCEPT ![cached_hash(e)] = e]
              /\ GetByHashResult(cached_hash(e))' = e]_vars

\* Two Entries of different texts and one hash, both alive and both just
\* stored: the record is the one stored last.
C15_Witness ==
    \E t, u \in Threads : \E h \in Hashes :
        /\ t # u
        /\ pc[t] = "drop_check" /\ pc[u] = "drop_check"
        /\ self[t] # self[u]
        /\ as_str(self[t]) # as_str(self[u])
        /\ cached_hash(self[t]) = h /\ cached_hash(self[u]) = h
        /\ HASH_MAP[h] = self[t]
        /\ GetByHashResult(h) = self[t]
        /\ strong[self[u]] > 0

\* C16: no call of From<&[u8]> unwinds: a byte slice that is not UTF-8 is
\* answered with a value, never with a panic.
C16_InvalidBytesFail == \A t \in Threads : pc[t] # "panicked"

\* C17 (SpecCCR: threads that only create, clone and drop): when drop takes
\* the shard lock while another Atom references its Entry (a create got in
\* after the test of line 113), it removes nothing and releases the lock; and
\* whenever a record is removed, its Entry is the dropped Atom's and no other
\* Atom references it.
C17_DoubleCheckedRemoval ==
    [][\A t \in Threads :
          /\ (DropLock(t) /\ Handles(self[t]) > 1) =>
                 (pc'[t] = "drop_dec" /\ ATOM_MAP' = ATOM_MAP /\ lock' = lock)
          /\ DropRemove(t) =>
                 /\ ATOM_MAP[as_str(self[t])] = self[t]
                 /\ Handles(self[t]) = 1
                 /\ ATOM_MAP'[as_str(self[t])] = 0]_vars

\* A drop that passed the test of line 113 as the only Atom of its Entry and
\* now finds, at the lock, the Atom a concurrent create returned.
C17_Witness ==
    \E t \in Threads :
        /\ pc[t] = "drop_lock"
        /\ lock[as_str(self[t])] = 0
        /\ ATOM_MAP[as_str(self[t])] = self[t]
        /\ held[self[t]] = 1
        /\ strong[self[t]] = 3

\* C18: the hash cached in the Entry of every outstanding Atom, Atom::default()
\* included, is str_hash of the Atom's text.
C18_CachedHashIsStrHash ==
    \A e \in Allocated :
        Handles(e) >= 1 => cached_hash(e) = str_hash(as_str(e))

\* C19: whenever drop removes the record of a text, the Entry the record
\* holds is the Entry of the Atom being dropped.
C19_RemovesOwnEntry ==
    [][\A t \in Threads :
          DropRemove(t) => ATOM_MAP[as_str(self[t])] = self[t]]_vars

\* C20: in a build with lookup_by_hash, when drop removes the last Atom's
\* record from ATOM_MAP, a HASH_MAP record under the Atom's hash that refers
\* to another Entry with outstanding Atoms is left as it is.
C20_EagerRemovalOwnRecord ==
    [][\A t \in Threads :
          (lookup_by_hash /\ DropRemove(t)) =>
              LET h == cached_hash(self[t])
                  r == HASH_MAP[h]
              IN  (r # 0 /\ r # self[t] /\ Handles(r) >= 1)
                      => HASH_MAP'[h] = r]_vars

====
